---------------------------- MODULE Spec2Model ----------------------------
(***************************************************************************)
(* Energy consumption analysis: the CSV loader (data_loader.py), the date  *)
(* range statistics (data_analysis.py) and the load handlers of the main   *)
(* window (interface.py), as state machines.                               *)
(*                                                                         *)
(* Values are tagged records so that missing values (NaN, NaT, None) are   *)
(* values of their own and never confused with a number:                   *)
(*   [k |-> "num", v |-> n]   a float                                      *)
(*   [k |-> "nan", v |-> 0]   NaN, a missing cell                          *)
(*   [k |-> "ts",  v |-> n]   a UTC timestamp, n seconds after 1970-01-01  *)
(*   [k |-> "nat", v |-> 0]   NaT                                          *)
(*   [k |-> "none", v |-> 0]  Python's None                                *)
(* Texts (raw CSV cells, date entries) are                                 *)
(*   [k |-> "date", y, m, d, s]  "YYYY-MM-DD" (s = 0) or with a time of    *)
(*                               day, s seconds after midnight             *)
(*   [k |-> "str", s |-> "..."]  any other text, the empty text included   *)
(*   [k |-> "numstr", v |-> n]   the decimal text of n                     *)
(* A call that raises is [ok |-> FALSE]; one that returns v is             *)
(* [ok |-> TRUE, val |-> v].                                               *)
(***************************************************************************)
EXTENDS Integers, Sequences, FiniteSets, TLC

VARIABLES
    data,           \* DataLoader.data
    data_source,    \* DataLoader.data_source
    analysis_data,  \* DataAnalysis.data
    call            \* the call in flight: its operation, arguments and result

vars == <<data, data_source, analysis_data, call>>

---------------------------------------------------------------------------
(* Bounds of the model *)

\* rows of a CSV file
MaxRows == 2

---------------------------------------------------------------------------
(* Values *)

None == [k |-> "none", v |-> 0]

NaN == [k |-> "nan", v |-> 0]

NaT == [k |-> "nat", v |-> 0]

Num(n) == [k |-> "num", v |-> n]

Ts(n) == [k |-> "ts", v |-> n]

Raise == [ok |-> FALSE]

Ok(x) == [ok |-> TRUE, val |-> x]

DateText(y, m, d, s) == [k |-> "date", y |-> y, m |-> m, d |-> d, s |-> s]

Str(s) == [k |-> "str", s |-> s]

NumStr(n) == [k |-> "numstr", v |-> n]

Idle == [op |-> "idle"]

---------------------------------------------------------------------------
(* pandas timestamps: the proleptic Gregorian calendar, in seconds *)

\* pd.Timedelta(days=1) in seconds
SecondsPerDay == 86400

IsLeap(y) == (y % 4 = 0 /\ y % 100 # 0) \/ y % 400 = 0

DaysInMonth(y, m) ==
    IF m = 2 THEN (IF IsLeap(y) THEN 29 ELSE 28)
    ELSE IF m \in {4, 6, 9, 11} THEN 30 ELSE 31

\* days from 1970-01-01 to y-01-01
DaysBeforeYear(y) ==
    365 * (y - 1970)
    + ((y - 1) \div 4 - (y - 1) \div 100 + (y - 1) \div 400)
    - (1969 \div 4 - 1969 \div 100 + 1969 \div 400)

RECURSIVE DaysBeforeMonth(_, _)
DaysBeforeMonth(y, m) ==
    IF m <= 1 THEN 0 ELSE DaysBeforeMonth(y, m - 1) + DaysInMonth(y, m - 1)

ValidDate(t) ==
    /\ t.m \in 1..12
    /\ t.d \in 1..DaysInMonth(t.y, t.m)
    /\ t.s \in 0..(SecondsPerDay - 1)

EpochSeconds(t) ==
    (DaysBeforeYear(t.y) + DaysBeforeMonth(t.y, t.m) + (t.d - 1)) * SecondsPerDay + t.s

\* pd.to_datetime(text, utc=True) of one text: a date text that names a day
\* of the calendar is that instant; the empty text is NaT (pandas reads it
\* as a null, it does not raise); a missing cell is NaT; any other text raises.
to_datetime(t) ==
    IF t.k = "date" THEN (IF ValidDate(t) THEN Ok(Ts(EpochSeconds(t))) ELSE Raise)
    ELSE IF t.k = "nan" THEN Ok(NaT)
    ELSE IF t.k = "str" /\ t.s = "" THEN Ok(NaT)
    ELSE Raise

\* timestamp + timedelta: NaT stays NaT
TsAdd(t, secs) == IF t.k = "ts" THEN Ts(t.v + secs) ELSE NaT

\* comparisons of timestamps: every comparison with NaT is False
TsGt(a, b) == a.k = "ts" /\ b.k = "ts" /\ a.v > b.v

TsGe(a, b) == a.k = "ts" /\ b.k = "ts" /\ a.v >= b.v

TsLe(a, b) == a.k = "ts" /\ b.k = "ts" /\ a.v <= b.v

---------------------------------------------------------------------------
(* Column names: a name is the sequence of its characters, so that Python's *)
(* substring test and str.lower() are computed, not looked up.  "e'" and    *)
(* "E'" stand for the letters e-acute and E-acute.                          *)

Contains(pat, name) ==
    \E i \in 1..(Len(name) - Len(pat) + 1) : SubSeq(name, i, i + Len(pat) - 1) = pat

\* str.lower() letter by letter
LowerMap ==
    ("A" :> "a") @@ ("B" :> "b") @@ ("C" :> "c") @@ ("D" :> "d")
    @@ ("E" :> "e") @@ ("F" :> "f") @@ ("G" :> "g") @@ ("H" :> "h")
    @@ ("I" :> "i") @@ ("J" :> "j") @@ ("K" :> "k") @@ ("L" :> "l")
    @@ ("M" :> "m") @@ ("N" :> "n") @@ ("O" :> "o") @@ ("P" :> "p")
    @@ ("Q" :> "q") @@ ("R" :> "r") @@ ("S" :> "s") @@ ("T" :> "t")
    @@ ("U" :> "u") @@ ("V" :> "v") @@ ("W" :> "w") @@ ("X" :> "x")
    @@ ("Y" :> "y") @@ ("Z" :> "z") @@ ("E'" :> "e'")

LowerChar(c) == IF c \in DOMAIN LowerMap THEN LowerMap[c] ELSE c

Lower(name) == [i \in 1..Len(name) |-> LowerChar(name[i])]

N_date == <<"d", "a", "t", "e">>

N_electricity_consumption == <<"e", "l", "e", "c", "t", "r", "i", "c", "i", "t", "y", "_", "c", "o", "n", "s", "u", "m", "p", "t", "i", "o", "n">>

N_gas_consumption == <<"g", "a", "s", "_", "c", "o", "n", "s", "u", "m", "p", "t", "i", "o", "n">>

N_consumption == <<"c", "o", "n", "s", "u", "m", "p", "t", "i", "o", "n">>

N_flag_ignore == <<"f", "l", "a", "g", "_", "i", "g", "n", "o", "r", "e">>

date_patterns ==
    <<<<"d", "a", "t", "e">>,
      <<"D", "a", "t", "e">>,
      <<"t", "e", "m", "p", "s">>,
      <<"T", "e", "m", "p", "s">>,
      <<"t", "i", "m", "e">>,
      <<"T", "i", "m", "e">>,
      <<"p", "e'", "r", "i", "o", "d", "e">>,
      <<"P", "e'", "r", "i", "o", "d", "e">>>>

elec_patterns ==
    <<<<"e'", "l", "e", "c", "t", "r", "i", "c", "i", "t", "e'">>,
      <<"e", "l", "e", "c", "t", "r", "i", "c", "i", "t", "e">>,
      <<"e'", "l", "e", "c", "t", "r">>,
      <<"e", "l", "e", "c", "t", "r">>,
      <<"R", "T", "E">>>>

gas_patterns ==
    <<<<"g", "a", "z">>,
      <<"g", "a", "s">>,
      <<"G", "R", "T", "g", "a", "z">>,
      <<"T", "e", "r", "e'", "g", "a">>>>

\* the first position at which flags, a sequence of booleans, is true; 0 when
\* it is true nowhere
FirstIndex(flags) ==
    IF \E i \in 1..Len(flags) : flags[i]
    THEN CHOOSE i \in 1..Len(flags) : flags[i] /\ \A j \in 1..(i - 1) : ~flags[j]
    ELSE 0

IndexOf(seq, x) == FirstIndex([i \in 1..Len(seq) |-> seq[i] = x])

InSeq(seq, x) == \E i \in 1..Len(seq) : seq[i] = x

---------------------------------------------------------------------------
(* DataLoader._load_csv.  A data frame is [columns, rows]: the column names *)
(* in order and the rows, each [idx, cells] with idx its index label and    *)
(* cells aligned with columns.                                              *)

\* the absence of a column (Python's None where a column name is expected)
NoCol == <<>>

\* pd.read_csv: the header names and the rows of raw cells, labelled 0, 1, ...
read_csv(file) ==
    [columns |-> file.header,
     rows |-> [i \in 1..Len(file.rows) |-> [idx |-> i - 1, cells |-> file.rows[i]]]]

Cell(df, i, name) == df.rows[i].cells[IndexOf(df.columns, name)]

\* read_csv gives a column a numeric dtype when each of its cells is a number
\* or empty; the columns of a frame without rows have dtype object
IsNumericColumn(df, name) ==
    /\ Len(df.rows) > 0
    /\ \A i \in 1..Len(df.rows) : Cell(df, i, name).k \in {"numstr", "nan"}

\* the value pd.to_datetime sees in a cell: a number in a numeric column is
\* nanoseconds after the epoch, less than one second
CellToDatetime(c) == IF c.k = "numstr" THEN Ok(Ts(0)) ELSE to_datetime(c)

\* '-' in str(x) or '/' in str(x)
HasDashOrSlash(c) == c.k = "date" \/ (c.k = "str" /\ c.s \in {"a-b", "a/b"})

\* a or, when a is no column, b
Coalesce(a, b) == IF a # NoCol THEN a ELSE b

\* the first column whose name contains pattern number pi, none when pi is 0
FirstColumnWith(columns, patterns, pi) ==
    IF pi = 0 THEN NoCol
    ELSE columns[FirstIndex([j \in 1..Len(columns) |-> Contains(patterns[pi], columns[j])])]

\* a faulty variant: the first column whose name contains any of the patterns
DateColByPattern_column_order(df) ==
    LET Hit(c) == \E i \in 1..Len(date_patterns) : Contains(date_patterns[i], c)
        Pick(j) == IF j = 0 THEN NoCol ELSE df.columns[j]
    IN  Pick(FirstIndex([j \in 1..Len(df.columns) |-> Hit(df.columns[j])]))

\* lines 186-191: the first pattern some column name contains, and the first
\* column containing it
DateColByPattern(df) ==
    LET Hit(p) == \E j \in 1..Len(df.columns) : Contains(p, df.columns[j])
    IN  FirstColumnWith(df.columns, date_patterns,
                        FirstIndex([i \in 1..Len(date_patterns) |-> Hit(date_patterns[i])]))

\* lines 194-202: the first column, when its first value converts to a date
DateColByFirstValue(df) ==
    IF Len(df.rows) = 0 THEN NoCol
    ELSE IF CellToDatetime(df.rows[1].cells[1]).ok THEN df.columns[1]
    ELSE NoCol

\* the first five non-missing cells at position pos
Samples(rows, pos) ==
    LET NotNa(r) == r.cells[pos].k # "nan"
        Head5(s) == SubSeq(s, 1, IF Len(s) < 5 THEN Len(s) ELSE 5)
    IN  Head5(SelectSeq(rows, NotNa))

\* lines 204-216: the first column one of whose first five non-missing values
\* holds a '-' or a '/'; the coercing conversion of the samples never raises
DateColByScan(df) ==
    LET Dashed(r, pos) == HasDashOrSlash(r.cells[pos])
        LooksAt(s, pos) == \E i \in 1..Len(s) : Dashed(s[i], pos)
        Looks(pos) == LooksAt(Samples(df.rows, pos), pos)
        Pick(j) == IF j = 0 THEN NoCol ELSE df.columns[j]
    IN  Pick(FirstIndex([j \in 1..Len(df.columns) |-> Looks(j)]))

FindDateCol(df) ==
    Coalesce(DateColByPattern(df), Coalesce(DateColByFirstValue(df), DateColByScan(df)))

\* a faulty variant: the first column whose lower-cased name contains any of
\* the lower-cased patterns
ColByPatterns_column_order(df, patterns) ==
    LET Hit(c) == \E i \in 1..Len(patterns) : Contains(Lower(patterns[i]), Lower(c))
        Pick(j) == IF j = 0 THEN NoCol ELSE df.columns[j]
    IN  Pick(FirstIndex([j \in 1..Len(df.columns) |-> Hit(df.columns[j])]))

\* lines 222-234: the first pattern that is, lower-cased, in some lower-cased
\* column name, and the first column it is in
ColByPatterns(df, patterns) ==
    LET lowered == [j \in 1..Len(df.columns) |-> Lower(df.columns[j])]
        lpatterns == [i \in 1..Len(patterns) |-> Lower(patterns[i])]
        Hit(p) == \E j \in 1..Len(lowered) : Contains(p, lowered[j])
        Pick(j) == IF j = 0 THEN NoCol ELSE df.columns[j]
        FirstHit(lp) == FirstIndex([i \in 1..Len(lp) |-> Hit(lp[i])])
        Find(lp, lc) == Pick(IndexOf(lc, FirstColumnWith(lc, lp, FirstHit(lp))))
    IN  Find(lpatterns, lowered)

\* df.select_dtypes(include=['number']).columns
NumericCols(df) ==
    LET IsNum(c) == IsNumericColumn(df, c) IN SelectSeq(df.columns, IsNum)

\* lines 237-242: without a column found by name, the numeric columns in order
NumericFallback(e, g, n) ==
    IF e = NoCol /\ g = NoCol
    THEN [elec |-> IF Len(n) >= 1 THEN n[1] ELSE NoCol,
          gas |-> IF Len(n) >= 2 THEN n[2] ELSE NoCol]
    ELSE [elec |-> e, gas |-> g]

\* lines 222-242: [elec, gas]
FindConsumptionCols(df) ==
    NumericFallback(ColByPatterns(df, elec_patterns), ColByPatterns(df, gas_patterns),
                    NumericCols(df))

\* lines 271-279: the strict conversion raises when a cell does not convert,
\* and the coercing one then makes NaT of every such cell
ParseDateColumn(cells) ==
    LET Strict(c) == CellToDatetime(c).val
        Coerce(c) == IF CellToDatetime(c).ok THEN CellToDatetime(c).val ELSE NaT
    IN  IF \A i \in 1..Len(cells) : CellToDatetime(cells[i]).ok
        THEN [i \in 1..Len(cells) |-> Strict(cells[i])]
        ELSE [i \in 1..Len(cells) |-> Coerce(cells[i])]

\* a faulty variant: rows without a date are kept
dropna_date_keep(rows, datePos) == rows

\* line 282: new_df.dropna(subset=['date'])
dropna_date(rows, datePos) ==
    LET HasDate(r) == r.cells[datePos].k # "nat" IN SelectSeq(rows, HasDate)

\* line 286: pd.to_numeric(x, errors='coerce')
to_numeric(c) == IF c.k = "numstr" THEN Num(c.v) ELSE NaN

\* a faulty variant: only the rows with a flag, and one that is not 'oui' in
\* either case, are kept
FilterFlagged_strict(df, rows) ==
    LET Unflagged(r, pos) ==
            \E i \in 1..Len(df.rows) :
                /\ df.rows[i].idx = r.idx
                /\ df.rows[i].cells[pos] \notin {Str("oui"), Str("Oui"), NaN}
        KeepAt(pos) == LET Keep(r) == Unflagged(r, pos) IN SelectSeq(rows, Keep)
    IN  IF InSeq(df.columns, N_flag_ignore)
        THEN KeepAt(IndexOf(df.columns, N_flag_ignore))
        ELSE rows

\* lines 289-291: the rows whose raw flag_ignore is not 'oui', by index label
FilterFlagged(df, rows) ==
    LET Unflagged(r, pos) ==
            \E i \in 1..Len(df.rows) :
                df.rows[i].idx = r.idx /\ df.rows[i].cells[pos] # Str("oui")
        KeepAt(pos) == LET Keep(r) == Unflagged(r, pos) IN SelectSeq(rows, Keep)
    IN  IF InSeq(df.columns, N_flag_ignore)
        THEN KeepAt(IndexOf(df.columns, N_flag_ignore))
        ELSE rows

\* lines 245-249: columns_to_keep
ColumnsToKeep(date_col, elec_col, gas_col) ==
    <<date_col>>
    \o (IF elec_col # NoCol THEN <<elec_col>> ELSE <<>>)
    \o (IF gas_col # NoCol THEN <<gas_col>> ELSE <<>>)

\* lines 261-268: the dict column_mapping, where a later key overwrites an
\* equal earlier one, applied to the kept columns
Rename(keep, date_col, elec_col, gas_col) ==
    LET Renamed(c) ==
            IF gas_col # NoCol /\ c = gas_col THEN N_gas_consumption
            ELSE IF elec_col # NoCol /\ c = elec_col THEN N_electricity_consumption
            ELSE N_date
    IN  [j \in 1..Len(keep) |-> Renamed(keep[j])]

\* a faulty variant: the kept columns in the order of the file
Project_file_order(df, keep) ==
    LET Kept(j) == InSeq(keep, df.columns[j])
        Take(r, where) == [idx |-> r.idx, cells |-> [j \in 1..Len(where) |-> r.cells[where[j]]]]
        TakeAll(where) == [i \in 1..Len(df.rows) |-> Take(df.rows[i], where)]
    IN  TakeAll(SelectSeq([j \in 1..Len(df.columns) |-> j], Kept))

\* line 258: df[columns_to_keep]
Project(df, keep) ==
    LET Pos(c) == IndexOf(df.columns, c)
        Take(r, where) == [idx |-> r.idx, cells |-> [j \in 1..Len(where) |-> r.cells[where[j]]]]
        TakeAll(where) == [i \in 1..Len(df.rows) |-> Take(df.rows[i], where)]
    IN  TakeAll([j \in 1..Len(keep) |-> Pos(keep[j])])

\* lines 271-279: new_df['date'] = pd.to_datetime(new_df['date'], utc=True)
ConvertDates(rows, datePos) ==
    LET Put(dates) == [i \in 1..Len(rows) |-> [rows[i] EXCEPT !.cells[datePos] = dates[i]]]
    IN  Put(ParseDateColumn([i \in 1..Len(rows) |-> rows[i].cells[datePos]]))

\* a faulty variant: a row with a cell that is no number is dropped
ConvertNumeric_dropping(rows) ==
    LET Numeric(r) == \A j \in 2..Len(r.cells) : r.cells[j].k = "numstr"
        Conv(cells) == [j \in 1..Len(cells) |-> IF j = 1 THEN cells[j] ELSE to_numeric(cells[j])]
        ConvAll(kept) == [i \in 1..Len(kept) |-> [kept[i] EXCEPT !.cells = Conv(kept[i].cells)]]
    IN  ConvAll(SelectSeq(rows, Numeric))

\* lines 285-286: every column after the first becomes numeric
ConvertNumeric(rows) ==
    LET Conv(cells) == [j \in 1..Len(cells) |-> IF j = 1 THEN cells[j] ELSE to_numeric(cells[j])]
    IN  [i \in 1..Len(rows) |-> [rows[i] EXCEPT !.cells = Conv(rows[i].cells)]]

\* a faulty variant: a name held by two columns is accepted
Clean_duplicates(df, rows, columns, datePos) ==
    IF datePos = 0 THEN Raise
    ELSE Ok([columns |-> columns,
             rows |-> FilterFlagged(df,
                         ConvertNumeric(dropna_date(ConvertDates(rows, datePos), datePos)))])

\* lines 270-299 on the projected and renamed frame
Clean(df, rows, columns, datePos) ==
    \* new_df['date'] is no column: the key error of both conversions
    IF datePos = 0 THEN Raise
    \* a name held by two columns selects a frame, which to_numeric rejects
    ELSE IF \E i, j \in 2..Len(columns) : i # j /\ columns[i] = columns[j] THEN Raise
    ELSE Ok([columns |-> columns,
             rows |-> FilterFlagged(df,
                         ConvertNumeric(dropna_date(ConvertDates(rows, datePos), datePos)))])

\* a faulty variant: a date column alone is enough
Select_unchecked(df, keep, date_col, elec_col, gas_col) ==
    LET Go(columns) == Clean(df, Project(df, keep), columns, IndexOf(columns, N_date))
    IN  Go(Rename(keep, date_col, elec_col, gas_col))

\* lines 244-268
Select(df, keep, date_col, elec_col, gas_col) ==
    LET Go(columns) == Clean(df, Project(df, keep), columns, IndexOf(columns, N_date))
    IN  IF Len(keep) < 2 THEN Raise ELSE Go(Rename(keep, date_col, elec_col, gas_col))

\* lines 175-242
Classify(df, date_col, cons) ==
    IF Len(df.columns) < 2 THEN Raise
    ELSE IF date_col = NoCol THEN Raise
    ELSE Select(df, ColumnsToKeep(date_col, cons.elec, cons.gas), date_col, cons.elec, cons.gas)

LoadFrame(df) == Classify(df, FindDateCol(df), FindConsumptionCols(df))

\* where the first bytes of the file are that are no UTF-8: "none" when it is
\* UTF-8 throughout, "first_chunk" when they are in the chunk that the
\* readline of line 152 decodes (the header line is in it), "beyond" when they
\* come after it.  A file without the field is UTF-8.
Utf8Error(file) == IF "utf8_error" \in DOMAIN file THEN file.utf8_error ELSE "none"

\* lines 151-152: the first line is read as UTF-8 and outside the try of line
\* 165, so that its UnicodeDecodeError goes to the handler of line 301
FirstLineRaises(file) == Utf8Error(file) = "first_chunk"

\* lines 148-303; read_csv raises UnicodeDecodeError on a file with bytes that
\* are no UTF-8 and reads it again as Latin-1, which decodes any bytes
_load_csv(file) == IF FirstLineRaises(file) THEN Raise ELSE LoadFrame(read_csv(file))

\* the local variables date_col, elec_col and gas_col when _load_csv returns
\* or raises: no column for one that is None or was never assigned (the raise
\* of line 177 comes before all three, that of line 219 before the last two)
Locals(df) ==
    LET Of(date_col, cons) ==
            IF date_col = NoCol
            THEN [date_col |-> NoCol, elec_col |-> NoCol, gas_col |-> NoCol]
            ELSE [date_col |-> date_col, elec_col |-> cons.elec, gas_col |-> cons.gas]
    IN  IF Len(df.columns) < 2
        THEN [date_col |-> NoCol, elec_col |-> NoCol, gas_col |-> NoCol]
        ELSE Of(FindDateCol(df), FindConsumptionCols(df))

---------------------------------------------------------------------------
(* The CSV files of the model *)

H_Date == <<"D", "a", "t", "e">>

H_Elec == <<"E", "l", "e", "c", "t", "r", "i", "c", "i", "t", "e'">>

H_Gaz == <<"G", "a", "z">>

H_Note == <<"N", "o", "t", "e">>

H_Time == <<"T", "i", "m", "e">>

H_Gas == <<"G", "a", "s">>

H_Valeur == <<"V", "a", "l", "e", "u", "r">>

\* the sequences over S of length at most n
SeqsUpTo(S, n) == UNION {[1..k -> S] : k \in 0..n}

\* 2024-12-01 00:00:00, 2024-12-01 23:59:59 and 2024-12-02 00:00:00
DayCells ==
    {DateText(2024, 12, 1, 0), DateText(2024, 12, 1, SecondsPerDay - 1),
     DateText(2024, 12, 2, 0)}

\* date and electricity: values on the days around a range
FilesElec ==
    {[header |-> <<H_Date, H_Elec>>, rows |-> r] :
        r \in SeqsUpTo({<<d, e>> : d \in DayCells,
                                   e \in {NumStr(1), NumStr(2), NaN}}, MaxRows)}

\* date and electricity: cells that do not convert
FilesDirty ==
    {[header |-> <<H_Date, H_Elec>>, rows |-> r] :
        r \in SeqsUpTo({<<d, e>> : d \in {DateText(2024, 12, 1, 0), DateText(2024, 2, 30, 0),
                                          Str("abc"), NaN},
                                   e \in {NumStr(1), Str("x")}}, MaxRows)}

\* date, electricity and gas
FilesBoth ==
    {[header |-> <<H_Date, H_Elec, H_Gaz>>, rows |-> r] :
        r \in SeqsUpTo({<<d, e, g>> : d \in {DateText(2024, 12, 1, 0)},
                                      e \in {NumStr(1), NaN},
                                      g \in {NumStr(1), NumStr(2), NaN}}, MaxRows)}

\* date and gas alone
FilesGas ==
    {[header |-> <<H_Date, H_Gaz>>, rows |-> r] :
        r \in SeqsUpTo({<<d, g>> : d \in {DateText(2024, 12, 1, 0), DateText(2024, 12, 2, 0)},
                                   g \in {NumStr(1), NaN}}, MaxRows)}

\* date, electricity and the flag_ignore column
FilesFlag ==
    {[header |-> <<H_Date, H_Elec, N_flag_ignore>>, rows |-> r] :
        r \in SeqsUpTo({<<d, e, f>> : d \in {DateText(2024, 12, 1, 0), Str("abc"), NaN},
                                      e \in {NumStr(1)},
                                      f \in {Str("oui"), Str("Oui"), Str("non"), NaN}},
                       MaxRows)}

\* files _load_csv rejects: one column; no date column; no consumption column
FilesBad ==
    {[header |-> <<H_Date>>, rows |-> r] : r \in SeqsUpTo({<<d>> : d \in DayCells}, MaxRows)}
    \cup {[header |-> <<H_Note, H_Elec>>, rows |-> r] :
            r \in SeqsUpTo({<<Str("abc"), NumStr(1)>>}, MaxRows)}
    \cup {[header |-> <<H_Date, H_Note>>, rows |-> r] :
            r \in SeqsUpTo({<<DateText(2024, 12, 1, 0), Str("abc")>>}, MaxRows)}

CsvFiles ==
    FilesElec \cup FilesDirty \cup FilesBoth \cup FilesGas \cup FilesFlag \cup FilesBad

\* headers with two date-like and with two gas-like names
FilesOrder ==
    {[header |-> h, rows |-> r] :
        h \in {<<H_Time, H_Date, H_Elec>>, <<H_Date, H_Gas, H_Gaz>>, <<H_Date, H_Gaz, H_Gas>>},
        r \in SeqsUpTo({<<d, x, y>> : d \in {DateText(2024, 12, 1, 0)},
                                      x \in {DateText(2024, 12, 2, 0), NumStr(1)},
                                      y \in {NumStr(2)}}, MaxRows)}

\* no date-like name: the date column is found by the values, or not at all
FilesScan ==
    {[header |-> <<H_Note, H_Valeur>>, rows |-> r] :
        r \in SeqsUpTo({<<n, v>> : n \in {Str("abc"), Str("a-b"), DateText(2024, 12, 1, 0),
                                          NumStr(1)},
                                   v \in {NumStr(1), Str("a/b")}}, MaxRows)}

\* no electricity-like and no gas-like name, or one of the two
FilesNumeric ==
    {[header |-> h, rows |-> r] :
        h \in {<<H_Date, H_Valeur, H_Note>>, <<H_Date, H_Elec, H_Valeur>>},
        r \in SeqsUpTo({<<d, v, n>> : d \in {DateText(2024, 12, 1, 0)},
                                      v \in {NumStr(1), NaN},
                                      n \in {NumStr(2), Str("abc")}}, MaxRows)}

\* 'Consommation e-acute-lectricit-e-acute (MWh)'
H_ConsoElec ==
    <<"C", "o", "n", "s", "o", "m", "m", "a", "t", "i", "o", "n", " ",
      "e'", "l", "e", "c", "t", "r", "i", "c", "i", "t", "e'", " ", "(", "M", "W", "h", ")">>

\* 'Consommation gaz (MWh)'
H_ConsoGaz ==
    <<"C", "o", "n", "s", "o", "m", "m", "a", "t", "i", "o", "n", " ",
      "g", "a", "z", " ", "(", "M", "W", "h", ")">>

\* the orders of the three columns of the published file
HeaderOrders ==
    {<<H_Date, H_ConsoElec, H_ConsoGaz>>, <<H_Date, H_ConsoGaz, H_ConsoElec>>,
     <<H_ConsoElec, H_Date, H_ConsoGaz>>, <<H_ConsoElec, H_ConsoGaz, H_Date>>,
     <<H_ConsoGaz, H_Date, H_ConsoElec>>, <<H_ConsoGaz, H_ConsoElec, H_Date>>}

\* a line of the file with the header h: the date d, the electricity e and
\* the gas g, each under its name
Arrange(h, d, e, g) ==
    [j \in 1..Len(h) |-> IF h[j] = H_Date THEN d ELSE IF h[j] = H_ConsoElec THEN e ELSE g]

\* the same lines under each order of the columns
FilesPermuted ==
    {[header |-> h, rows |-> [i \in 1..Len(r) |-> Arrange(h, r[i][1], r[i][2], r[i][3])]] :
        h \in HeaderOrders,
        r \in SeqsUpTo({<<d, e, g>> : d \in {DateText(2024, 12, 1, 0)},
                                      e \in {NumStr(1), NaN},
                                      g \in {NumStr(2)}}, MaxRows)}

\* 'RTE gaz': an electricity token and a gas token
H_RteGaz == <<"R", "T", "E", " ", "g", "a", "z">>

\* 'Date RTE': a date token and an electricity token
H_DateRte == <<"D", "a", "t", "e", " ", "R", "T", "E">>

\* 'Date gaz': a date token and a gas token
H_DateGaz == <<"D", "a", "t", "e", " ", "g", "a", "z">>

\* headers with a name that holds the tokens of two roles
FilesClash ==
    {[header |-> h, rows |-> r] :
        h \in {<<H_Date, H_RteGaz>>, <<H_DateRte, H_Gaz>>, <<H_DateGaz, H_Elec>>},
        r \in SeqsUpTo({<<DateText(2024, 12, 1, 0), NumStr(1)>>}, MaxRows)}
    \cup {[header |-> h, rows |-> r] :
            h \in {<<H_Date, H_Gaz, H_RteGaz>>, <<H_Date, H_RteGaz, H_Gaz>>},
            r \in SeqsUpTo({<<DateText(2024, 12, 1, 0), NumStr(1), NumStr(2)>>}, MaxRows)}

\* the files of the loads that are followed up to the classification
ClassifiedFiles ==
    CsvFiles \cup FilesOrder \cup FilesScan \cup FilesNumeric \cup FilesPermuted
    \cup FilesClash

\* files in Latin-1 with a letter that is no UTF-8, which Latin-1 decodes to
\* e-acute: in the header, and so in the first chunk, or in a cell of each
\* row, the first of them in the first chunk or, in a file longer than the
\* chunk whose other rows are left out, beyond it
FilesLatin1 ==
    {[header |-> f.header, rows |-> f.rows, utf8_error |-> "first_chunk"] : f \in FilesElec}
    \cup {[header |-> <<H_Date, H_Gaz, H_Note>>, rows |-> r, utf8_error |-> w] :
            r \in SeqsUpTo({<<d, g, Str("e'")>> :
                               d \in {DateText(2024, 12, 1, 0), DateText(2024, 12, 2, 0)},
                               g \in {NumStr(1), NaN}}, MaxRows) \ {<<>>},
            w \in {"first_chunk", "beyond"}}

LoadCsv(file) ==
    /\ call' = [op |-> "_load_csv", file |-> file,
                locals |-> IF FirstLineRaises(file)
                           THEN [date_col |-> NoCol, elec_col |-> NoCol, gas_col |-> NoCol]
                           ELSE Locals(read_csv(file)),
                ret |-> _load_csv(file)]
    /\ UNCHANGED <<data, data_source, analysis_data>>

---------------------------------------------------------------------------
(* DataLoader.load_from_file, DataLoader.load_from_url and the two load     *)
(* handlers of MainWindow.  The file system and the network are the         *)
(* environment: a path names a file, a request answers with a body or       *)
(* fails, and the backup copy of a download succeeds or fails.              *)

SessionPaths ==
    {"both.csv", "elec.csv", "flag.csv", "onecol.csv", "notes.csv",
     "header.csv", "nodates.csv", "flagged.csv"}

FileAt(path) ==
    CASE path = "both.csv" ->
            [header |-> <<H_Date, H_Elec, H_Gaz>>,
             rows |-> << <<DateText(2024, 12, 1, 0), NumStr(1), NumStr(2)>>,
                         <<DateText(2024, 12, 2, 0), NumStr(2), NaN>> >>]
      [] path = "elec.csv" ->
            [header |-> <<H_Date, H_Elec>>,
             rows |-> << <<Str("abc"), NumStr(1)>>,
                         <<DateText(2024, 12, 1, 0), Str("x")>> >>]
      [] path = "flag.csv" ->
            [header |-> <<H_Date, H_Elec, N_flag_ignore>>,
             rows |-> << <<DateText(2024, 12, 1, 0), NumStr(1), Str("oui")>>,
                         <<DateText(2024, 12, 2, 0), NumStr(2), Str("non")>> >>]
      \* the header alone
      [] path = "header.csv" ->
            [header |-> <<H_Date, H_Elec>>, rows |-> <<>>]
      \* no date that converts
      [] path = "nodates.csv" ->
            [header |-> <<H_Date, H_Elec>>,
             rows |-> << <<Str("abc"), NumStr(1)>>,
                         <<DateText(2024, 2, 30, 0), NumStr(2)>> >>]
      \* every row flagged
      [] path = "flagged.csv" ->
            [header |-> <<H_Date, H_Elec, N_flag_ignore>>,
             rows |-> << <<DateText(2024, 12, 1, 0), NumStr(1), Str("oui")>>,
                         <<DateText(2024, 12, 2, 0), NumStr(2), Str("oui")>> >>]
      [] path = "onecol.csv" ->
            [header |-> <<H_Date>>, rows |-> << <<DateText(2024, 12, 1, 0)>> >>]
      [] OTHER ->
            [header |-> <<H_Note, H_Elec>>, rows |-> << <<Str("abc"), NumStr(1)>> >>]

\* a URL, with what load_from_url tests of it: 'opendatasoft.com' in url,
\* url.endswith('.csv'), 'explore/dataset/consommation-quotidienne-brute' in url
Url(s, ods, csv, explore) ==
    [k |-> "url", s |-> s, ods |-> ods, csv |-> csv, explore |-> explore]

ExploreUrl ==
    Url("https://odre.opendatasoft.com/explore/dataset/consommation-quotidienne-brute",
        TRUE, FALSE, TRUE)

DownloadUrl ==
    Url("https://odre.opendatasoft.com/api/explore/v2.1/catalog/datasets/consommation-quotidienne-brute/exports/csv",
        TRUE, FALSE, FALSE)

DirectUrl == Url("https://example.org/data.csv", FALSE, TRUE, FALSE)

SessionUrls == {ExploreUrl, DirectUrl}

\* what a request answers: no body (the request raised, or an HTTP error
\* status) or the body of a file
Responses ==
    {[ok |-> FALSE]} \cup {[ok |-> TRUE, body |-> FileAt(p)] : p \in SessionPaths}

\* a faulty variant: a table without rows is rejected
load_from_file_nonempty(d, src, file_path) ==
    LET r == _load_csv(FileAt(file_path))
        Accept(t) == IF t.rows # <<>>
                     THEN [data |-> t, data_source |-> Str(file_path), ret |-> TRUE]
                     ELSE [data |-> d, data_source |-> src, ret |-> FALSE]
    IN  IF r.ok THEN Accept(r.val)
        ELSE [data |-> d, data_source |-> src, ret |-> FALSE]

\* lines 114-133: the [data, data_source, ret] after the call
load_from_file(d, src, file_path) ==
    LET r == _load_csv(FileAt(file_path))
    IN  IF r.ok THEN [data |-> r.val, data_source |-> Str(file_path), ret |-> TRUE]
        ELSE [data |-> d, data_source |-> src, ret |-> FALSE]

\* lines 36-112: the download (lines 58-76), then the parse assigned to
\* self.data (line 81), then the backup copy (lines 86-91), then data_source
load_from_url(d, src, url, response, backup_ok) ==
    LET target == IF url.ods /\ ~url.csv /\ url.explore THEN DownloadUrl ELSE url
        r == _load_csv(response.body)
    IN  IF ~response.ok THEN [data |-> d, data_source |-> src, ret |-> FALSE]
        ELSE IF ~r.ok THEN [data |-> d, data_source |-> src, ret |-> FALSE]
        ELSE IF ~backup_ok THEN [data |-> r.val, data_source |-> src, ret |-> FALSE]
        ELSE [data |-> r.val, data_source |-> target, ret |-> TRUE]

\* MainWindow.load_file with the path the file dialog gave
LoadFile(path) ==
    LET r == load_from_file(data, data_source, path)
    IN  /\ call = Idle
        /\ data' = r.data
        /\ data_source' = r.data_source
        /\ analysis_data' = IF r.ret THEN r.data ELSE analysis_data
        /\ call' = [op |-> "load_from_file", file_path |-> path, before |-> data,
                    ret |-> r.ret]

\* MainWindow.load_file when the file dialog is cancelled
LoadFileCancelled ==
    /\ call = Idle
    /\ call' = [op |-> "load_file_cancelled"]
    /\ UNCHANGED <<data, data_source, analysis_data>>

\* MainWindow.load_from_url with the URL typed in the dialog
LoadFromUrl(url, response, backup_ok) ==
    LET r == load_from_url(data, data_source, url, response, backup_ok)
    IN  /\ call = Idle
        /\ data' = r.data
        /\ data_source' = r.data_source
        /\ analysis_data' = IF r.ret THEN r.data ELSE analysis_data
        /\ call' = [op |-> "load_from_url", url |-> url, response |-> response,
                    backup_ok |-> backup_ok, before |-> data, ret |-> r.ret]

---------------------------------------------------------------------------
(* DataAnalysis._validate_date_range *)

\* a faulty variant: the end is left at midnight
EndOfDay_midnight(e) == e

\* the end of the day: end + 1 day - 1 second
EndOfDay(e) == TsAdd(TsAdd(e, SecondsPerDay), -1)

_validate_date_range(start_date, end_date) ==
    LET s == to_datetime(start_date)
        e == to_datetime(end_date)
    IN  IF ~s.ok \/ ~e.ok THEN Raise
        ELSE LET end == EndOfDay(e.val)
             IN  IF TsGt(s.val, end) THEN Raise
                 ELSE Ok([start |-> s.val, end |-> end])

---------------------------------------------------------------------------
(* DataAnalysis: column resolution, the date filter and the statistics      *)

P_gas == <<"g", "a", "s">>

P_gaz == <<"g", "a", "z">>

P_electr == <<"e", "l", "e", "c", "t", "r">>

P_electr_acute == <<"e'", "l", "e", "c", "t", "r">>

\* the first element of seq at which flags is true, raising when there is none
FirstOrRaise(seq, flags) ==
    LET At(j) == IF j = 0 THEN Raise ELSE Ok(seq[j]) IN At(FirstIndex(flags))

\* a faulty variant: without the canonical column, the first column that is
\* not the date
ResolveColumn_any(columns, consumption_type) ==
    LET NotDate(c) == c # N_date
        non_date_columns == [i \in 1..Len(columns) |-> NotDate(columns[i])]
    IN  IF consumption_type = "gas" /\ InSeq(columns, N_gas_consumption)
        THEN Ok(N_gas_consumption)
        ELSE IF consumption_type = "electricity" /\ InSeq(columns, N_electricity_consumption)
        THEN Ok(N_electricity_consumption)
        ELSE FirstOrRaise(columns, non_date_columns)

\* lines 85-124: the column a consumption type reads
ResolveColumn(columns, consumption_type) ==
    LET GasLike(c) == Contains(P_gas, Lower(c)) \/ Contains(P_gaz, Lower(c))
        ElecLike(c) == Contains(P_electr, Lower(c)) \/ Contains(P_electr_acute, Lower(c))
        NotDate(c) == c # N_date
        gas_columns == [i \in 1..Len(columns) |-> GasLike(columns[i])]
        elec_columns == [i \in 1..Len(columns) |-> ElecLike(columns[i])]
        non_date_columns == [i \in 1..Len(columns) |-> NotDate(columns[i])]
    IN  IF consumption_type = "gas"
        THEN (IF InSeq(columns, N_gas_consumption) THEN Ok(N_gas_consumption)
              ELSE FirstOrRaise(columns, gas_columns))
        ELSE IF consumption_type = "electricity"
        THEN (IF InSeq(columns, N_electricity_consumption) THEN Ok(N_electricity_consumption)
              ELSE FirstOrRaise(columns, elec_columns))
        ELSE IF InSeq(columns, N_consumption) THEN Ok(N_consumption)
        ELSE FirstOrRaise(columns, non_date_columns)

\* a faulty variant: the start of the range is excluded
InRange_open(d, start_date, end_date) == TsGt(d, start_date) /\ TsLe(d, end_date)

\* lines 133-134: (date >= start_date) & (date <= end_date)
InRange(d, start_date, end_date) == TsGe(d, start_date) /\ TsLe(d, end_date)

\* lines 130-134: the rows of the table in the range, in table order
FilterRows(table, start_date, end_date) ==
    LET In(r, pos) == InRange(r.cells[pos], start_date, end_date)
        At(pos) == LET Keep(r) == In(r, pos) IN SelectSeq(table.rows, Keep)
    IN  At(IndexOf(table.columns, N_date))

\* lines 82-139: [rows, column], the filtered rows and the resolved column
_filter_data_by_date(table, start_date, end_date, consumption_type) ==
    LET With(col) ==
            IF ~col.ok THEN Raise
            ELSE Ok([rows |-> FilterRows(table, start_date, end_date),
                     columns |-> table.columns, column |-> col.val])
    IN  IF table = None THEN Raise
        ELSE With(ResolveColumn(table.columns, consumption_type))

\* the validated range, then the filter: the first lines of every query
Filtered(table, start_date, end_date, consumption_type) ==
    LET With(range) ==
            IF ~range.ok THEN Raise
            ELSE _filter_data_by_date(table, range.val.start, range.val.end, consumption_type)
    IN  With(_validate_date_range(start_date, end_date))

\* the rows whose cell at pos is a number
NonMissing(rows, pos) ==
    LET IsNum(r) == r.cells[pos].k = "num" IN SelectSeq(rows, IsNum)

\* a faulty variant: of equal minima the last one
idxmin_last(rows, pos) ==
    LET Least(nn) ==
            LET IsMin(r) == \A j \in 1..Len(nn) : r.cells[pos].v <= nn[j].cells[pos].v
                IsLastMin(i) == IsMin(nn[i]) /\ \A j \in (i + 1)..Len(nn) : ~IsMin(nn[j])
            IN  IF nn = <<>> THEN NaN
                ELSE Num(nn[CHOOSE i \in 1..Len(nn) : IsLastMin(i)].idx)
    IN  Least(NonMissing(rows, pos))

\* Series.idxmin(): the label of the first least value, missing values
\* skipped; NaN when all are missing
idxmin(rows, pos) ==
    LET Least(nn) ==
            LET IsMin(r) == \A j \in 1..Len(nn) : r.cells[pos].v <= nn[j].cells[pos].v
            IN  IF nn = <<>> THEN NaN ELSE Num(nn[FirstIndex([i \in 1..Len(nn) |-> IsMin(nn[i])])].idx)
    IN  Least(NonMissing(rows, pos))

\* Series.idxmax()
idxmax(rows, pos) ==
    LET Most(nn) ==
            LET IsMax(r) == \A j \in 1..Len(nn) : r.cells[pos].v >= nn[j].cells[pos].v
            IN  IF nn = <<>> THEN NaN ELSE Num(nn[FirstIndex([i \in 1..Len(nn) |-> IsMax(nn[i])])].idx)
    IN  Most(NonMissing(rows, pos))

\* a faulty variant: a label that is no index label reads a missing value
loc_nan(rows, label, pos) ==
    LET Labelled(r) == r.idx = label.v
        At(row) == IF ~row.ok THEN Raise
                   ELSE Ok([value |-> row.val.cells[pos], date |-> row.val.cells[1]])
    IN  IF label.k # "num" THEN Ok([value |-> NaN, date |-> NaT])
        ELSE At(FirstOrRaise(rows, [i \in 1..Len(rows) |-> Labelled(rows[i])]))

\* filtered.loc[label, column] and filtered.loc[label, filtered.columns[0]]:
\* a label that is no index label (NaN) is a key error
loc(rows, label, pos) ==
    LET Labelled(r) == r.idx = label.v
        At(row) == IF ~row.ok THEN Raise
                   ELSE Ok([value |-> row.val.cells[pos], date |-> row.val.cells[1]])
    IN  IF label.k # "num" THEN Raise ELSE At(FirstOrRaise(rows, [i \in 1..Len(rows) |-> Labelled(rows[i])]))

NoValue == [value |-> None, date |-> None]

\* the position of the resolved column in the filtered frame
ColumnPos(f) == IndexOf(f.columns, f.column)

\* lines 157-168 and 186-197 after the filter, for the label idxmin or idxmax
\* found: (None, None) for no rows and for a label .loc does not find
Extreme(f, label) ==
    LET Out(at) == IF at.ok THEN at.val ELSE NoValue
    IN  IF f.rows = <<>> THEN NoValue ELSE Out(loc(f.rows, label, ColumnPos(f)))

get_minimum(table, start_date, end_date, consumption_type) ==
    LET With(f) == IF ~f.ok THEN NoValue
                   ELSE Extreme(f.val, idxmin(f.val.rows, ColumnPos(f.val)))
    IN  With(Filtered(table, start_date, end_date, consumption_type))

get_maximum(table, start_date, end_date, consumption_type) ==
    LET With(f) == IF ~f.ok THEN NoValue
                   ELSE Extreme(f.val, idxmax(f.val.rows, ColumnPos(f.val)))
    IN  With(Filtered(table, start_date, end_date, consumption_type))

RECURSIVE SumCells(_, _)
SumCells(rows, pos) ==
    IF rows = <<>> THEN 0 ELSE Head(rows).cells[pos].v + SumCells(Tail(rows), pos)

\* Series.mean(): the sum of the values that are not missing over their
\* number, the ratio n/d; NaN when there is none
mean(rows, pos) ==
    LET Of(nn) == IF nn = <<>> THEN NaN
                  ELSE [k |-> "ratio", n |-> SumCells(nn, pos), d |-> Len(nn)]
    IN  Of(NonMissing(rows, pos))

\* lines 211-222
get_average(table, start_date, end_date, consumption_type) ==
    LET Of(f) == IF f.rows = <<>> THEN None
                 ELSE mean(f.rows, IndexOf(f.columns, f.column))
        With(f) == IF ~f.ok THEN None ELSE Of(f.val)
    IN  With(Filtered(table, start_date, end_date, consumption_type))

Count(n) == [k |-> "int", v |-> n]

\* a faulty variant: a value equal to the threshold is above it
Above_or_equal(c, threshold) == c.k = "num" /\ c.v >= threshold

\* filtered[column] > threshold: False for a missing value
Above(c, threshold) == c.k = "num" /\ c.v > threshold

\* filtered[column] < threshold: False for a missing value
Below(c, threshold) == c.k = "num" /\ c.v < threshold

\* (...).sum() of a boolean series
CountWhere(flags) == Cardinality({i \in 1..Len(flags) : flags[i]})

\* filtered[column]
Column(f) == [i \in 1..Len(f.rows) |-> f.rows[i].cells[ColumnPos(f)]]

\* a faulty variant: no row in the range counts as zero rows
CountOrNone_zero(f, flags) == Count(CountWhere(flags))

\* lines 241-244 and 267-270: None for an empty frame, else the number of
\* rows at which the comparison is true
CountOrNone(f, flags) == IF f.rows = <<>> THEN None ELSE Count(CountWhere(flags))

\* lines 237-248
count_days_above_threshold(table, start_date, end_date, threshold, consumption_type) ==
    LET Hits(col) == [i \in 1..Len(col) |-> Above(col[i], threshold)]
        With(f) == IF ~f.ok THEN None ELSE CountOrNone(f.val, Hits(Column(f.val)))
    IN  With(Filtered(table, start_date, end_date, consumption_type))

\* lines 263-274
count_days_below_threshold(table, start_date, end_date, threshold, consumption_type) ==
    LET Hits(col) == [i \in 1..Len(col) |-> Below(col[i], threshold)]
        With(f) == IF ~f.ok THEN None ELSE CountOrNone(f.val, Hits(Column(f.val)))
    IN  With(Filtered(table, start_date, end_date, consumption_type))

\* a faulty variant: rows without a value are kept
dropna_column_keep(rows, pos) == rows

\* lines 297 and 306: filtered.dropna(subset=[column])
dropna_column(rows, pos) == NonMissing(rows, pos)

\* lines 309 and 314: rows[[filtered.columns[0], column]]
Subtable(f, rows, column) ==
    LET Two(r, pos) == [idx |-> r.idx, cells |-> <<r.cells[1], r.cells[pos]>>]
        At(pos) == [i \in 1..Len(rows) |-> Two(rows[i], pos)]
    IN  [columns |-> <<f.columns[1], column>>, rows |-> At(IndexOf(f.columns, column))]

\* a faulty variant: no second attempt with the gas column
GasFallback_none(f) == None

\* lines 304-312: the gas column resolved as _filter_data_by_date resolves it,
\* a failure of the resolution caught; None unless a row has a gas value
GasFallback(f) ==
    LET Of(rows, gas_column) == IF rows = <<>> THEN None ELSE Subtable(f, rows, gas_column)
        With(gas) == IF ~gas.ok THEN None
                     ELSE Of(dropna_column(f.rows, IndexOf(f.columns, gas.val)), gas.val)
    IN  With(ResolveColumn(f.columns, "gas"))

\* lines 292-314 on the filtered frame
PeriodData(f, consumption_type) ==
    LET Of(non_empty_data) ==
            IF non_empty_data # <<>> THEN Subtable(f, non_empty_data, f.column)
            ELSE IF consumption_type = "electricity" THEN GasFallback(f)
            ELSE None
    IN  IF f.rows = <<>> THEN None ELSE Of(dropna_column(f.rows, ColumnPos(f)))

\* a faulty variant: without the try, what the range check or the filter raises
\* leaves the query
get_data_for_period_unguarded(table, start_date, end_date, consumption_type) ==
    LET With(f) == IF ~f.ok THEN Raise ELSE PeriodData(f.val, consumption_type)
    IN  With(Filtered(table, start_date, end_date, consumption_type))

\* lines 288-318
get_data_for_period(table, start_date, end_date, consumption_type) ==
    LET With(f) == IF ~f.ok THEN None ELSE PeriodData(f.val, consumption_type)
    IN  With(Filtered(table, start_date, end_date, consumption_type))

---------------------------------------------------------------------------
(* The calls on DataAnalysis *)

\* the date entries a caller may pass
RangeTexts ==
    {DateText(2024, m, d, 0) : m \in {2, 12}, d \in {1, 29, 30, 31}}
    \cup {DateText(2024, 13, 1, 0), DateText(2024, 12, 1, 43200),
          Str(""), Str("abc")}

\* the date entries of the queries: one day, two days, a day without rows,
\* a start after the end, a text that is no date, the empty text
QueryRanges ==
    {<<DateText(2024, 12, 1, 0), DateText(2024, 12, 1, 0)>>,
     <<DateText(2024, 12, 1, 0), DateText(2024, 12, 2, 0)>>,
     <<DateText(2024, 12, 2, 0), DateText(2024, 12, 2, 0)>>,
     <<DateText(2024, 11, 30, 0), DateText(2024, 11, 30, 0)>>,
     <<DateText(2024, 12, 2, 0), DateText(2024, 11, 30, 0)>>,
     <<Str("abc"), DateText(2024, 12, 1, 0)>>,
     <<Str(""), DateText(2024, 12, 2, 0)>>}

Kinds == {"electricity", "gas"}

Thresholds == {1, 2}

\* a faulty variant: the subtable of get_data_for_period is cut out of the held
\* table in place
Query_in_place(op, rng, kind, ret) ==
    /\ call' = [op |-> op, start_date |-> rng[1], end_date |-> rng[2],
                consumption_type |-> kind, ret |-> ret]
    /\ analysis_data' = IF op = "get_data_for_period" /\ ret # None THEN ret
                        ELSE analysis_data
    /\ UNCHANGED <<data, data_source>>

Query(op, rng, kind, ret) ==
    /\ call' = [op |-> op, start_date |-> rng[1], end_date |-> rng[2],
                consumption_type |-> kind, ret |-> ret]
    /\ UNCHANGED <<data, data_source, analysis_data>>

ThresholdQuery(op, rng, threshold, kind, ret) ==
    /\ call' = [op |-> op, start_date |-> rng[1], end_date |-> rng[2],
                threshold |-> threshold, consumption_type |-> kind, ret |-> ret]
    /\ UNCHANGED <<data, data_source, analysis_data>>

GetMinimum(rng, kind) ==
    Query("get_minimum", rng, kind, get_minimum(analysis_data, rng[1], rng[2], kind))

GetMaximum(rng, kind) ==
    Query("get_maximum", rng, kind, get_maximum(analysis_data, rng[1], rng[2], kind))

GetAverage(rng, kind) ==
    Query("get_average", rng, kind, get_average(analysis_data, rng[1], rng[2], kind))

CountDaysAbove(rng, threshold, kind) ==
    ThresholdQuery("count_days_above_threshold", rng, threshold, kind,
        count_days_above_threshold(analysis_data, rng[1], rng[2], threshold, kind))

CountDaysBelow(rng, threshold, kind) ==
    ThresholdQuery("count_days_below_threshold", rng, threshold, kind,
        count_days_below_threshold(analysis_data, rng[1], rng[2], threshold, kind))

GetDataForPeriod(rng, kind) ==
    Query("get_data_for_period", rng, kind,
          get_data_for_period(analysis_data, rng[1], rng[2], kind))

\* _filter_data_by_date on a validated range, as every query calls it
FilterDataByDate(rng, kind) ==
    LET Go(range) ==
            /\ range.ok
            /\ call' = [op |-> "_filter_data_by_date", start_date |-> range.val.start,
                        end_date |-> range.val.end, consumption_type |-> kind,
                        ret |-> _filter_data_by_date(analysis_data, range.val.start,
                                                     range.val.end, kind)]
            /\ UNCHANGED <<data, data_source, analysis_data>>
    IN  Go(_validate_date_range(rng[1], rng[2]))

\* the days of the two date fields of the window
PlotRanges == {rng \in QueryRanges : rng[1].k = "date" /\ rng[2].k = "date"}

\* EnergyConsumptionVisualization.plot_consumption on the table set_data gave
\* it, the figure being created with the window: the column it draws, or the
\* ValueError of the column resolution
plot_consumption(table, consumption_type) ==
    IF table = None THEN Raise ELSE ResolveColumn(table.columns, consumption_type)

\* what create_plot ends with: a warning, the plot, or the error message
PlotOutcome(d, period_data, plot) ==
    IF d = None THEN "no_data_loaded"
    ELSE IF period_data = None THEN "no_data_found"
    ELSE IF period_data.rows = <<>> THEN "no_data_found"
    ELSE IF plot.ok THEN "plot_created"
    ELSE "error"

\* MainWindow.create_plot with the days of the date fields and the kind of
\* the radio buttons
CreatePlot(rng, kind) ==
    LET Go(period_data) ==
            call' = [op |-> "create_plot", start_date |-> rng[1], end_date |-> rng[2],
                     consumption_type |-> kind, period_data |-> period_data,
                     plot |-> plot_consumption(period_data, kind),
                     ret |-> PlotOutcome(data, period_data,
                                         plot_consumption(period_data, kind))]
    IN  /\ Go(get_data_for_period(analysis_data, rng[1], rng[2], kind))
        /\ UNCHANGED <<data, data_source, analysis_data>>

ValidateRange(s, e) ==
    /\ call' = [op |-> "_validate_date_range", start_date |-> s, end_date |-> e,
                ret |-> _validate_date_range(s, e)]
    /\ UNCHANGED <<data, data_source, analysis_data>>

\* the caller takes the result
Return ==
    /\ call # Idle
    /\ call' = Idle
    /\ UNCHANGED <<data, data_source, analysis_data>>

InitNoData ==
    /\ data = None
    /\ data_source = None
    /\ analysis_data = None
    /\ call = Idle

NextRange ==
    \/ call = Idle /\ \E s \in RangeTexts, e \in RangeTexts : ValidateRange(s, e)
    \/ Return

SpecRange == InitNoData /\ [][NextRange]_vars

Next ==
    \/ call = Idle /\ \E path \in SessionPaths : LoadFile(path)
    \/ LoadFileCancelled
    \/ call = Idle /\ \E url \in SessionUrls, response \in Responses, backup_ok \in BOOLEAN :
            LoadFromUrl(url, response, backup_ok)
    \/ Return

Spec == InitNoData /\ [][Next]_vars

\* a session in which a file has been loaded
InitLoaded ==
    \E file \in CsvFiles :
        /\ _load_csv(file).ok
        /\ data = _load_csv(file).val
        /\ data_source = Str("data.csv")
        /\ analysis_data = data
        /\ call = Idle

InitQuery == InitNoData \/ InitLoaded

NextQuery ==
    \/ call = Idle /\ \E rng \in QueryRanges, kind \in Kinds : GetMinimum(rng, kind)
    \/ call = Idle /\ \E rng \in QueryRanges, kind \in Kinds : GetMaximum(rng, kind)
    \/ call = Idle /\ \E rng \in QueryRanges, kind \in Kinds : GetAverage(rng, kind)
    \/ call = Idle /\ \E rng \in QueryRanges, t \in Thresholds, kind \in Kinds :
            CountDaysAbove(rng, t, kind)
    \/ call = Idle /\ \E rng \in QueryRanges, t \in Thresholds, kind \in Kinds :
            CountDaysBelow(rng, t, kind)
    \/ call = Idle /\ \E rng \in QueryRanges, kind \in Kinds : GetDataForPeriod(rng, kind)
    \/ call = Idle /\ \E rng \in QueryRanges, kind \in Kinds : FilterDataByDate(rng, kind)
    \/ Return

SpecQuery == InitQuery /\ [][NextQuery]_vars

NextPlot ==
    \/ call = Idle /\ \E rng \in PlotRanges, kind \in Kinds : CreatePlot(rng, kind)
    \/ Return

SpecPlot == InitQuery /\ [][NextPlot]_vars

NextCsv ==
    \/ call = Idle /\ \E file \in ClassifiedFiles : LoadCsv(file)
    \/ Return

SpecCsv == InitNoData /\ [][NextCsv]_vars

\* the loads of files that are Latin-1 and no UTF-8
NextDecode ==
    \/ call = Idle /\ \E file \in FilesLatin1 : LoadCsv(file)
    \/ Return

SpecDecode == InitNoData /\ [][NextDecode]_vars

---------------------------------------------------------------------------
(* What the properties below speak of, stated from the table and the        *)
(* arguments of the call alone.                                             *)

\* the text names a day of the calendar
IsDayText(t) == t.k = "date" /\ ValidDate(t) /\ t.s = 0

\* a query's range is valid: two days, the first not after the second
ValidQueryRange ==
    /\ IsDayText(call.start_date) /\ IsDayText(call.end_date)
    /\ EpochSeconds(call.start_date) <= EpochSeconds(call.end_date)

\* the seconds of the first and of the last instant of a valid range
RangeFirst == EpochSeconds(call.start_date)

RangeLast == EpochSeconds(call.end_date) + SecondsPerDay - 1

CanonicalColumn(kind) ==
    IF kind = "gas" THEN N_gas_consumption ELSE N_electricity_consumption

\* the held table has the canonical column of the query's consumption type
HasQueryColumn ==
    /\ analysis_data # None
    /\ InSeq(analysis_data.columns, CanonicalColumn(call.consumption_type))

QueryValue(i) ==
    analysis_data.rows[i].cells[IndexOf(analysis_data.columns,
                                        CanonicalColumn(call.consumption_type))]

QueryDate(i) == analysis_data.rows[i].cells[IndexOf(analysis_data.columns, N_date)]

\* the rows of the held table dated in the range of a query
RowsInRange ==
    {i \in 1..Len(analysis_data.rows) :
        QueryDate(i).v >= RangeFirst /\ QueryDate(i).v <= RangeLast}

\* those of them with a value in the column
ValuedInRange == {i \in RowsInRange : QueryValue(i).k = "num"}

IsStatistic == call.op \in {"get_minimum", "get_maximum", "get_average"}

IsCount == call.op \in {"count_days_above_threshold", "count_days_below_threshold"}

\* the query is well formed: a valid range and a column to read
WellFormedQuery == (IsStatistic \/ IsCount) /\ ValidQueryRange /\ HasQueryColumn

RECURSIVE SumOver(_)
SumOver(S) ==
    IF S = {} THEN 0
    ELSE LET i == CHOOSE x \in S : TRUE IN QueryValue(i).v + SumOver(S \ {i})

---------------------------------------------------------------------------
(* C1.  A load is all-or-nothing: a load_from_file or load_from_url call    *)
(* that returns False leaves DataLoader.data as it was before the call, and *)
(* one that returns True replaces it with the newly normalized table.       *)
C1_AllOrNothing ==
    /\ call.op = "load_from_file" =>
          IF call.ret THEN data = _load_csv(FileAt(call.file_path)).val
          ELSE data = call.before
    /\ call.op = "load_from_url" =>
          IF call.ret THEN data = _load_csv(call.response.body).val
          ELSE data = call.before

(* C2.  Every row of a table _load_csv returns has a valid UTC timestamp as *)
(* its date: no NaT, whichever conversion was used and whether or not the   *)
(* flag_ignore filter ran.                                                  *)
C2_DatesValid ==
    (call.op = "_load_csv" /\ call.ret.ok) =>
        \A i \in 1..Len(call.ret.val.rows) :
            call.ret.val.rows[i].cells[IndexOf(call.ret.val.columns, N_date)].k = "ts"

\* a load with a date that does not convert, under the flag_ignore filter,
\* that keeps a row
C2_Witness ==
    /\ call.op = "_load_csv" /\ call.ret.ok
    /\ InSeq(call.file.header, N_flag_ignore)
    /\ \E i \in 1..Len(call.file.rows) : call.file.rows[i][1] = Str("abc")
    /\ Len(call.ret.val.rows) >= 1

(* C3.  On two day texts _validate_date_range returns 00:00:00 UTC of the   *)
(* start day and 23:59:59 UTC of the end day; the same day twice is a range *)
(* of one day: "2024-12-01" twice is 1733011200 .. 1733097599.              *)
C3_DayBoundaries ==
    (call.op = "_validate_date_range" /\ IsDayText(call.start_date)
        /\ IsDayText(call.end_date)) =>
        /\ call.ret.ok =>
              /\ call.ret.val.start = Ts(EpochSeconds(call.start_date))
              /\ call.ret.val.start.v % SecondsPerDay = 0
              /\ call.ret.val.end = Ts(EpochSeconds(call.end_date) + SecondsPerDay - 1)
              /\ call.ret.val.end.v % SecondsPerDay = SecondsPerDay - 1
        /\ call.start_date = call.end_date =>
              /\ call.ret.ok
              /\ call.ret.val.end.v - call.ret.val.start.v = SecondsPerDay - 1
        /\ (call.start_date = DateText(2024, 12, 1, 0) /\ call.end_date = call.start_date) =>
              /\ call.ret.val.start.v = 1733011200
              /\ call.ret.val.end.v = 1733097599

C3_Witness ==
    /\ call.op = "_validate_date_range"
    /\ call.start_date = DateText(2024, 12, 1, 0)
    /\ call.end_date = DateText(2024, 12, 1, 0)
    /\ call.ret.ok

(* C4.  _validate_date_range raises exactly when a text does not parse as a *)
(* date or the start is after the end of the end day, and it never returns  *)
(* a range with start > end.                                                *)
C4_RaisesExactly ==
    call.op = "_validate_date_range" =>
        LET Parses(t) == t.k = "date" /\ ValidDate(t)
            Both == Parses(call.start_date) /\ Parses(call.end_date)
        IN  /\ ~call.ret.ok <=>
                  (~Both \/ EpochSeconds(call.start_date)
                                > EpochSeconds(call.end_date) + SecondsPerDay - 1)
            /\ call.ret.ok => ~TsGt(call.ret.val.start, call.ret.val.end)

(* C5.  _filter_data_by_date returns exactly the rows of the held table     *)
(* with start <= date <= end, in table order, and an empty set of rows, not *)
(* an error, when none qualifies.                                           *)
C5_FilterInclusive ==
    call.op = "_filter_data_by_date" =>
        LET Dated(r) == r.cells[IndexOf(analysis_data.columns, N_date)].v
            Inside(r) ==
                /\ call.start_date.k = "ts" /\ call.end_date.k = "ts"
                /\ Dated(r) >= call.start_date.v /\ Dated(r) <= call.end_date.v
            got == call.ret.val.rows
        IN  /\ (analysis_data # None
                    /\ InSeq(analysis_data.columns, CanonicalColumn(call.consumption_type)))
                  => call.ret.ok
            /\ call.ret.ok =>
                  /\ \A i \in 1..Len(got) :
                        Inside(got[i]) /\ InSeq(analysis_data.rows, got[i])
                  /\ \A i \in 1..Len(analysis_data.rows) :
                        Inside(analysis_data.rows[i]) => InSeq(got, analysis_data.rows[i])
                  /\ \A i, j \in 1..Len(got) : i < j => got[i].idx < got[j].idx

\* a row on the last second of the range is kept and another row is not
C5_Witness ==
    /\ call.op = "_filter_data_by_date" /\ call.ret.ok
    /\ Len(call.ret.val.rows) < Len(analysis_data.rows)
    /\ \E i \in 1..Len(call.ret.val.rows) : call.ret.val.rows[i].cells[1] = call.end_date

(* C6.  get_minimum / get_maximum return the least / greatest value that   *)
(* is not missing of the resolved column among the rows in the range, with  *)
(* the date of that same row; of several rows with that value, the first in *)
(* table order.                                                             *)
C6_ExtremeAndDate ==
    (call.op \in {"get_minimum", "get_maximum"} /\ WellFormedQuery /\ ValuedInRange # {}) =>
        LET IsExtreme(i) ==
                \A j \in ValuedInRange :
                    IF call.op = "get_minimum" THEN QueryValue(i).v <= QueryValue(j).v
                    ELSE QueryValue(i).v >= QueryValue(j).v
            first == CHOOSE i \in ValuedInRange :
                        IsExtreme(i) /\ \A j \in ValuedInRange : IsExtreme(j) => i <= j
        IN  call.ret = [value |-> QueryValue(first), date |-> QueryDate(first)]

\* two rows of the range hold the least value on different dates
C6_Witness ==
    /\ call.op = "get_minimum" /\ WellFormedQuery
    /\ \E i, j \in ValuedInRange :
          /\ i < j
          /\ QueryValue(i) = QueryValue(j)
          /\ QueryDate(i) # QueryDate(j)
          /\ call.ret = [value |-> QueryValue(i), date |-> QueryDate(i)]

(* C7.  get_minimum and get_maximum return (None, None) when no row is in   *)
(* the range and when every row in the range is missing in the resolved     *)
(* column; the value they return is never NaN.                              *)
C7_ExtremeNoData ==
    call.op \in {"get_minimum", "get_maximum"} =>
        /\ call.ret.value.k # "nan"
        /\ (WellFormedQuery /\ ValuedInRange = {}) => call.ret = NoValue

\* rows in the range, all of them missing in the column
C7_Witness ==
    /\ call.op \in {"get_minimum", "get_maximum"} /\ WellFormedQuery
    /\ RowsInRange # {} /\ ValuedInRange = {}
    /\ call.ret = NoValue

(* C8.  get_average returns the arithmetic mean of the values that are not  *)
(* missing of the resolved column over the rows in the range, and None when *)
(* there is no such value, rows that are all missing included.              *)
C8_MeanOrNoData ==
    (call.op = "get_average" /\ WellFormedQuery) =>
        IF ValuedInRange = {} THEN call.ret = None
        ELSE /\ call.ret.k = "ratio"
             /\ call.ret.n * Cardinality(ValuedInRange) = SumOver(ValuedInRange) * call.ret.d

\* the rows in the range that a count query counts
Qualifying ==
    {i \in ValuedInRange :
        IF call.op = "count_days_above_threshold" THEN QueryValue(i).v > call.threshold
        ELSE QueryValue(i).v < call.threshold}

(* C9.  The count queries count exactly the rows in the range whose value   *)
(* is strictly above / strictly below the threshold: a value equal to the   *)
(* threshold and a missing value are counted by neither.                    *)
C9_StrictCounts ==
    (IsCount /\ WellFormedQuery /\ RowsInRange # {}) =>
        call.ret = Count(Cardinality(Qualifying))

\* in the range, a value equal to the threshold and a missing value
C9_Witness ==
    /\ IsCount /\ WellFormedQuery
    /\ \E i \in RowsInRange : QueryValue(i) = Num(call.threshold)
    /\ \E i \in RowsInRange : QueryValue(i) = NaN
    /\ call.ret = Count(0)

(* C10.  The count queries keep NoData and zero apart: with no row of the   *)
(* table in the range they return None, never 0, and they return 0 only     *)
(* when a row is in the range and none qualifies.                           *)
C10_NoDataNotZero ==
    IsCount =>
        /\ (WellFormedQuery /\ RowsInRange = {}) => call.ret = None
        /\ call.ret = Count(0) =>
              (WellFormedQuery /\ RowsInRange # {} /\ Qualifying = {})

\* a table with rows, none of them in the range
C10_Witness ==
    /\ IsCount /\ WellFormedQuery
    /\ Len(analysis_data.rows) > 0 /\ RowsInRange = {}
    /\ call.ret = None

\* the public queries of DataAnalysis
PublicQueries ==
    {"get_minimum", "get_maximum", "get_average", "count_days_above_threshold",
     "count_days_below_threshold", "get_data_for_period"}

\* the outcome NoData of a query: None, and (None, None) of get_minimum and
\* get_maximum
IsNoData(ret) == ret = None \/ ret = NoValue

(* C11.  For the kinds electricity and gas the column is resolved in the    *)
(* order: the canonical name, a name containing 'electr' or 'e-acute lectr' *)
(* ('gas' or 'gaz'), a column named 'consumption', the first column that is *)
(* not the date; the resolution fails only when the table has no column     *)
(* other than the date.                                                     *)
C11_ResolutionOrder ==
    (call.op = "_filter_data_by_date" /\ analysis_data # None) =>
        LET cols == analysis_data.columns
            Like(c) ==
                IF call.consumption_type = "gas"
                THEN Contains(<<"g", "a", "s">>, Lower(c)) \/ Contains(<<"g", "a", "z">>, Lower(c))
                ELSE \/ Contains(<<"e", "l", "e", "c", "t", "r">>, Lower(c))
                     \/ Contains(<<"e'", "l", "e", "c", "t", "r">>, Lower(c))
            FirstOf(S) == cols[CHOOSE i \in S : \A j \in S : i <= j]
            likes == {i \in 1..Len(cols) : Like(cols[i])}
            others == {i \in 1..Len(cols) : cols[i] # N_date}
            expected ==
                IF InSeq(cols, CanonicalColumn(call.consumption_type))
                THEN CanonicalColumn(call.consumption_type)
                ELSE IF likes # {} THEN FirstOf(likes)
                ELSE IF InSeq(cols, N_consumption) THEN N_consumption
                ELSE FirstOf(others)
        IN  IF others = {} THEN ~call.ret.ok
            ELSE call.ret.ok /\ call.ret.val.column = expected

\* the rows of the held table in the range with a value in column c, in
\* table order, as rows of the two columns date and c
PeriodSubtable(c) ==
    LET datePos == IndexOf(analysis_data.columns, N_date)
        pos == IndexOf(analysis_data.columns, c)
        Kept(r) == /\ r.cells[datePos].v >= RangeFirst
                   /\ r.cells[datePos].v <= RangeLast
                   /\ r.cells[pos].k = "num"
        Two(r) == [idx |-> r.idx, cells |-> <<r.cells[datePos], r.cells[pos]>>]
        Of(rows) == [i \in 1..Len(rows) |-> Two(rows[i])]
    IN  [columns |-> <<N_date, c>>, rows |-> Of(SelectSeq(analysis_data.rows, Kept))]

\* the consumption columns of the held table
ConsumptionColumns ==
    {analysis_data.columns[i] : i \in 1..Len(analysis_data.columns)} \ {N_date}

(* C12.  A subtable get_data_for_period returns has exactly two columns,    *)
(* the date and one consumption column, and exactly the rows in the range   *)
(* whose value in that column is not missing, in table order; it is never   *)
(* empty.                                                                   *)
C12_PeriodSubtable ==
    (call.op = "get_data_for_period" /\ call.ret # None) =>
        /\ analysis_data # None /\ ValidQueryRange
        /\ call.ret.rows # <<>>
        /\ \E c \in ConsumptionColumns : call.ret = PeriodSubtable(c)

\* a subtable that left out a row in the range for its missing value
C12_Witness ==
    /\ call.op = "get_data_for_period" /\ call.ret # None
    /\ HasQueryColumn /\ ValuedInRange # {} /\ RowsInRange # ValuedInRange
    /\ call.ret = PeriodSubtable(CanonicalColumn(call.consumption_type))

\* rows in the range, every one of them missing in the column of the kind
AllMissingInRange ==
    /\ call.op = "get_data_for_period" /\ ValidQueryRange /\ HasQueryColumn
    /\ RowsInRange # {} /\ ValuedInRange = {}

\* the gas-based subtable, None when the table has no gas column or no row in
\* the range has a gas value
GasSubtable ==
    IF ~InSeq(analysis_data.columns, N_gas_consumption) THEN None
    ELSE IF PeriodSubtable(N_gas_consumption).rows = <<>> THEN None
    ELSE PeriodSubtable(N_gas_consumption)

(* C13.  get_data_for_period for electricity, when rows are in the range    *)
(* and all their electricity values are missing, returns the gas-based      *)
(* subtable when that is not empty and None otherwise; for gas there is no  *)
(* such second attempt with electricity.                                    *)
C13_GasFallback ==
    AllMissingInRange =>
        IF call.consumption_type = "electricity" THEN call.ret = GasSubtable
        ELSE call.ret = None

\* electricity asked, all missing in the range, and the gas rows returned
C13_Witness ==
    /\ AllMissingInRange /\ call.consumption_type = "electricity"
    /\ call.ret # None /\ call.ret = GasSubtable

(* C14.  No public query raises: whatever the held table (none included),   *)
(* the range texts, the kind and the threshold, it returns a result or      *)
(* NoData.                                                                  *)
C14_QueriesNeverRaise ==
    call.op \in PublicQueries => call.ret # Raise

\* a query on no table, and a query with a text that is no date, both
\* answered with NoData
C14_Witness ==
    /\ call.op \in PublicQueries /\ IsNoData(call.ret)
    /\ analysis_data = None \/ ~ValidQueryRange

(* C15.  A query whose range is invalid (a text that is no date, a start    *)
(* after the end) or whose kind resolves to no column has an outcome the    *)
(* caller can tell from the NoData of a valid query over an empty range.    *)
C15_ErrorApartFromNoData ==
    (/\ call.op \in PublicQueries
     /\ ~ValidQueryRange \/ (analysis_data # None /\ ~HasQueryColumn)) =>
        ~IsNoData(call.ret)

\* the least element of a set of positions
Least(S) == CHOOSE i \in S : \A j \in S : i <= j

\* a load that got as far as a date column: the three locals are assigned
Classified ==
    /\ call.op = "_load_csv"
    /\ Len(call.file.header) >= 2
    /\ call.locals.date_col # NoCol

\* the date patterns a name of the header contains, by position in the list
DateTokenHits ==
    {t \in 1..Len(date_patterns) :
        \E j \in 1..Len(call.file.header) : Contains(date_patterns[t], call.file.header[j])}

(* C16.  The date column is resolved by name along the ordered patterns      *)
(* 'date', 'Date', 'temps', 'Temps', 'time', 'Time', 'periode', 'Periode'    *)
(* (with e-acute): the first pattern that is a case-sensitive substring of   *)
(* a column name wins, and the column is the first in file order containing  *)
(* that pattern, even when an earlier column contains a later pattern.       *)
C16_DateByName ==
    (call.op = "_load_csv" /\ Len(call.file.header) >= 2 /\ DateTokenHits # {}) =>
        LET h == call.file.header
            With(t) == {j \in 1..Len(h) : Contains(date_patterns[t], h[j])}
        IN  call.locals.date_col = h[Least(With(Least(DateTokenHits)))]

\* 'Time' comes first in the file, and 'Date', first in the patterns, is chosen
C16_Witness ==
    /\ call.op = "_load_csv"
    /\ Len(call.file.header) >= 2
    /\ call.file.header[1] = H_Time /\ call.file.header[2] = H_Date
    /\ call.locals.date_col = H_Date

(* C17.  In the scan of last resort (no name matched and the first value of  *)
(* the first column did not convert) a column becomes the date column only   *)
(* when one of its first five values that are not missing converts to a      *)
(* date; one whose values merely hold a '-' or a '/' is not selected.        *)
C17_ScanNeedsADate ==
    (/\ Classified
     /\ DateTokenHits = {}
     /\ \/ call.file.rows = <<>>
        \/ ~CellToDatetime(call.file.rows[1][1]).ok) =>
        LET pos == IndexOf(call.file.header, call.locals.date_col)
            Present(r) == r[pos].k # "nan"
            First5(x) == SubSeq(x, 1, IF Len(x) < 5 THEN Len(x) ELSE 5)
            Converts(x) == \E i \in 1..Len(x) : x[i][pos].k = "date" /\ ValidDate(x[i][pos])
        IN  Converts(First5(SelectSeq(call.file.rows, Present)))

\* the column of the header with a match for a pattern of the list, the first
\* column in file order with any match; no column without a match
ByFirstColumn(patterns) ==
    LET h == call.file.header
        Match(t, c) == Contains(Lower(patterns[t]), Lower(c))
        cols == {j \in 1..Len(h) : \E t \in 1..Len(patterns) : Match(t, h[j])}
    IN  IF cols = {} THEN NoCol ELSE h[Least(cols)]

\* the first column in file order matching the first pattern of the list
\* that has a match; no column without a match
ByFirstToken(patterns) ==
    LET h == call.file.header
        Match(t, c) == Contains(Lower(patterns[t]), Lower(c))
        hits == {t \in 1..Len(patterns) : \E j \in 1..Len(h) : Match(t, h[j])}
        With(t) == {j \in 1..Len(h) : Match(t, h[j])}
    IN  IF hits = {} THEN NoCol ELSE h[Least(With(Least(hits)))]

(* C18, as stated.  Each consumption column is resolved by case-insensitive  *)
(* substring match against its list of patterns, and the first matching      *)
(* column in file order wins.                                                *)
C18_FirstColumnWins ==
    Classified =>
        /\ ByFirstColumn(elec_patterns) # NoCol =>
              call.locals.elec_col = ByFirstColumn(elec_patterns)
        /\ ByFirstColumn(gas_patterns) # NoCol =>
              call.locals.gas_col = ByFirstColumn(gas_patterns)

(* C18, amended.  Each consumption column is resolved, independently of the  *)
(* other, by case-insensitive substring match along its ordered list of      *)
(* patterns: the first pattern of the list that matches any column wins, and *)
(* the column is the first in file order matching that pattern.              *)
C18_FirstTokenWins ==
    Classified =>
        /\ ByFirstToken(elec_patterns) # NoCol =>
              call.locals.elec_col = ByFirstToken(elec_patterns)
        /\ ByFirstToken(gas_patterns) # NoCol =>
              call.locals.gas_col = ByFirstToken(gas_patterns)

\* 'Gas' comes before 'Gaz' in the file, and 'Gaz', matching the first
\* pattern, is the gas column
C18_Witness ==
    /\ Classified
    /\ IndexOf(call.file.header, H_Gas) = 2 /\ IndexOf(call.file.header, H_Gaz) = 3
    /\ call.locals.gas_col = H_Gaz

(* C19.  The numeric columns are used only when neither an electricity nor   *)
(* a gas column was found by name: the numeric columns other than the date   *)
(* column are then the candidates, the first for electricity and the second, *)
(* if any, for gas.  With one of the two kinds found by name the other stays *)
(* absent.                                                                   *)
C19_NumericFallback ==
    Classified =>
        LET df == read_csv(call.file)
            Candidate(c) == c # call.locals.date_col /\ IsNumericColumn(df, c)
            Nth(cand, n) == IF Len(cand) >= n THEN cand[n] ELSE NoCol
            e == ByFirstToken(elec_patterns)
            g == ByFirstToken(gas_patterns)
        IN  IF e = NoCol /\ g = NoCol
            THEN /\ call.locals.elec_col = Nth(SelectSeq(call.file.header, Candidate), 1)
                 /\ call.locals.gas_col = Nth(SelectSeq(call.file.header, Candidate), 2)
            ELSE call.locals.elec_col = e /\ call.locals.gas_col = g

(* C20.  _load_csv raises the format error, and returns no table, when the   *)
(* raw table has fewer than two columns, when none of the three heuristics   *)
(* finds a date column, and when no consumption column is classified.        *)
C20_FormatErrors ==
    (/\ call.op = "_load_csv"
     /\ \/ Len(call.file.header) < 2
        \/ call.locals.date_col = NoCol
        \/ call.locals.elec_col = NoCol /\ call.locals.gas_col = NoCol) =>
        ~call.ret.ok

\* a date column and no consumption column: the load raises
C20_Witness ==
    /\ Classified
    /\ call.locals.elec_col = NoCol /\ call.locals.gas_col = NoCol
    /\ ~call.ret.ok

\* the position in the header of a column of the file
RawPos(c) == IndexOf(call.file.header, c)

\* the date cell of raw row i converts to a timestamp
HasValidDate(i) ==
    LET c == call.file.rows[i][RawPos(call.locals.date_col)]
    IN  CellToDatetime(c).ok /\ CellToDatetime(c).val.k = "ts"

\* raw row i holds the literal 'oui' in the column flag_ignore
Flagged(i) ==
    /\ InSeq(call.file.header, N_flag_ignore)
    /\ call.file.rows[i][RawPos(N_flag_ignore)] = Str("oui")

\* the consumption columns of the load, electricity before gas
ChosenConsumption ==
    (IF call.locals.elec_col # NoCol THEN <<call.locals.elec_col>> ELSE <<>>)
    \o (IF call.locals.gas_col # NoCol THEN <<call.locals.gas_col>> ELSE <<>>)

\* a date column and one or two consumption columns, each another column
RolesAssigned ==
    /\ Classified
    /\ ChosenConsumption # <<>>
    /\ \A j \in 1..Len(ChosenConsumption) : ChosenConsumption[j] # call.locals.date_col
    /\ call.locals.elec_col # call.locals.gas_col

\* what raw row i is in the normalized table: its date, and each consumption
\* cell as a number, or missing when it is empty or no number
NormalizedCells(i) ==
    LET raw == call.file.rows[i]
        Value(c) == IF c.k = "numstr" THEN Num(c.v) ELSE NaN
    IN  <<CellToDatetime(raw[RawPos(call.locals.date_col)]).val>>
        \o [j \in 1..Len(ChosenConsumption) |-> Value(raw[RawPos(ChosenConsumption[j])])]

RawLabels == [i \in 1..Len(call.file.rows) |-> i - 1]

\* the index labels of the rows of the returned table, in order
ReturnedLabels == [k \in 1..Len(call.ret.val.rows) |-> call.ret.val.rows[k].idx]

(* C22.  When the raw table has a column flag_ignore, the normalized table   *)
(* holds exactly the rows with a valid date whose raw flag is not the        *)
(* literal 'oui': a missing flag, 'Oui' and 'non' keep the row.  Rows are    *)
(* matched by index label, so filtering on the flag before or after dropping *)
(* the rows without a date gives the same rows.                              *)
C22_FlagIgnore ==
    (/\ call.op = "_load_csv"
     /\ InSeq(call.file.header, N_flag_ignore)
     /\ call.ret.ok) =>
        LET Dated(l) == HasValidDate(l + 1)
            Unflagged(l) == call.file.rows[l + 1][RawPos(N_flag_ignore)] # Str("oui")
        IN  /\ ReturnedLabels = SelectSeq(SelectSeq(RawLabels, Dated), Unflagged)
            /\ ReturnedLabels = SelectSeq(SelectSeq(RawLabels, Unflagged), Dated)

\* of two rows with a valid date the one flagged 'oui' is dropped and the one
\* flagged 'Oui' is kept
C22_Witness ==
    /\ call.op = "_load_csv"
    /\ InSeq(call.file.header, N_flag_ignore)
    /\ Len(call.file.rows) = 2
    /\ call.file.rows[1][RawPos(N_flag_ignore)] = Str("oui")
    /\ call.file.rows[2][RawPos(N_flag_ignore)] = Str("Oui")
    /\ call.ret.ok
    /\ ReturnedLabels = <<1>>

(* C23.  For the headers Date, 'Consommation electricite (MWh)' and          *)
(* 'Consommation gaz (MWh)' (with e-acute), under every order of the three   *)
(* columns, the classification selects the same three columns as date,       *)
(* electricity and gas, and the columns of the normalized table are date,    *)
(* electricity_consumption, gas_consumption in that order, each row holding  *)
(* under each of them the cell of the column selected for it.                *)
C23_ColumnOrderFree ==
    (call.op = "_load_csv" /\ call.file.header \in HeaderOrders) =>
        /\ call.locals = [date_col |-> H_Date, elec_col |-> H_ConsoElec, gas_col |-> H_ConsoGaz]
        /\ call.ret.ok
        /\ call.ret.val.columns =
              <<N_date, N_electricity_consumption, N_gas_consumption>>
        /\ \A k \in 1..Len(call.ret.val.rows) :
              LET raw == call.file.rows[call.ret.val.rows[k].idx + 1]
                  Value(c) == IF c.k = "numstr" THEN Num(c.v) ELSE NaN
              IN  call.ret.val.rows[k].cells =
                      <<to_datetime(raw[RawPos(H_Date)]).val,
                        Value(raw[RawPos(H_ConsoElec)]),
                        Value(raw[RawPos(H_ConsoGaz)])>>

\* the date is the last column of the file and the first of the table
C23_Witness ==
    /\ call.op = "_load_csv"
    /\ call.file.header = <<H_ConsoGaz, H_ConsoElec, H_Date>>
    /\ call.ret.ok
    /\ Len(call.ret.val.rows) = 2
    /\ call.ret.val.columns = <<N_date, N_electricity_consumption, N_gas_consumption>>
    /\ call.ret.val.rows[1].cells[1].k = "ts"
    /\ call.ret.val.rows[1].cells[3] = Num(2)

(* C24.  A file that is valid Latin-1 and not valid UTF-8 is loaded by       *)
(* falling back to Latin-1, wherever the bytes that are no UTF-8 are, the    *)
(* header line included: the load returns what the Latin-1 text of the file  *)
(* gives, a normalized table when that text has one, and no format error.    *)
C24_Latin1Fallback ==
    (call.op = "_load_csv" /\ Utf8Error(call.file) # "none") =>
        call.ret = LoadFrame(read_csv(call.file))

\* no name twice in a sequence of names
NoDuplicate(seq) == \A i, j \in 1..Len(seq) : seq[i] = seq[j] => i = j

C26_QueriesKeepTable ==
    [][call'.op \in PublicQueries => analysis_data' = analysis_data]_vars

\* get_data_for_period returned a subtable that leaves out a row and a column
\* of the held table, which is still the table that was loaded
C26_Witness ==
    /\ call.op = "get_data_for_period" /\ call.ret # None
    /\ Len(call.ret.rows) < Len(analysis_data.rows)
    /\ Len(call.ret.columns) < Len(analysis_data.columns)
    /\ analysis_data = data

\* the load calls of MainWindow
LoadCalls == {"load_from_file", "load_from_url"}

\* the source a load that succeeded names: the path of the file, or the URL
\* that was downloaded
NamedSource ==
    IF call.op = "load_from_file" THEN Str(call.file_path)
    ELSE IF call.url.ods /\ ~call.url.csv /\ call.url.explore THEN DownloadUrl
    ELSE call.url

(* C27.  After any sequence of file and URL loads driven through MainWindow, *)
(* each succeeding or failing, the table held by DataAnalysis is the table   *)
(* held by DataLoader, both absent before the first success, and             *)
(* DataLoader.data_source names the source of that table: a load that        *)
(* succeeds updates data and data_source together, and one that fails        *)
(* changes neither.                                                          *)
C27_HeldTableAndSource ==
    /\ [](/\ analysis_data = data
          /\ (data = None) <=> (data_source = None)
          /\ (call.op \in LoadCalls /\ call.ret) => data_source = NamedSource)
    /\ [][(call'.op \in LoadCalls /\ ~call'.ret) =>
              (data' = data /\ data_source' = data_source)]_vars

\* the file of a load_from_file call has a date column and one or two
\* consumption columns, each another column
FileClassifies(f) ==
    LET roles == Locals(read_csv(f))
    IN  /\ Len(f.header) >= 2
        /\ roles.date_col # NoCol
        /\ roles.elec_col # roles.gas_col
        /\ roles.date_col # roles.elec_col /\ roles.date_col # roles.gas_col

\* every row of the file is dropped: its date does not convert to a
\* timestamp, or its flag_ignore is 'oui'
AllRowsDropped(f) ==
    LET datePos == IndexOf(f.header, Locals(read_csv(f)).date_col)
        NoDate(c) == ~CellToDatetime(c).ok \/ CellToDatetime(c).val.k # "ts"
        IsFlagged(row) == /\ InSeq(f.header, N_flag_ignore)
                          /\ row[IndexOf(f.header, N_flag_ignore)] = Str("oui")
    IN  \A i \in 1..Len(f.rows) : NoDate(f.rows[i][datePos]) \/ IsFlagged(f.rows[i])

(* C28, as stated.  A successful load always yields a table with at least   *)
(* one row: a file whose rows are all dropped (the header alone, no date     *)
(* that converts, every row flagged 'oui') is rejected and not installed as  *)
(* an empty table.                                                           *)
C28_NeverEmpty ==
    (call.op \in LoadCalls /\ call.ret) => data.rows # <<>>

(* C28, amended.  A successful load may yield a table without rows: a file   *)
(* whose columns classify and whose rows are all dropped (the header alone,  *)
(* no date that converts, every row flagged 'oui') is accepted, and its      *)
(* table, with the canonical columns and no row, is installed in DataLoader  *)
(* and DataAnalysis.                                                         *)
C28_EmptyTableInstalled ==
    (/\ call.op = "load_from_file"
     /\ FileClassifies(FileAt(call.file_path))
     /\ AllRowsDropped(FileAt(call.file_path))) =>
        /\ call.ret
        /\ data # None
        /\ data.rows = <<>>
        /\ data.columns[1] = N_date /\ Len(data.columns) >= 2
        /\ analysis_data = data
        /\ data_source = Str(call.file_path)

\* after a table with rows, the file with no date that converts is loaded:
\* the table held is now without rows
C28_Witness ==
    /\ call.op = "load_from_file" /\ call.file_path = "nodates.csv"
    /\ call.before # None /\ call.before.rows # <<>>
    /\ call.ret
    /\ data.rows = <<>> /\ analysis_data = data

C30_PlotOfSubtable ==
    (call.op = "create_plot" /\ call.period_data # None) =>
        /\ call.plot.ok
        /\ InSeq(call.period_data.columns, call.plot.val)
        /\ call.plot.val # N_date
        /\ call.ret = "plot_created"

=============================================================================
